---------------------------- MODULE Spec2Model ----------------------------
(***************************************************************************)
(* A model of leftcorner/cfg.py: weighted context-free grammars, their     *)
(* structural transformations (trim, binarize, separate_start,             *)
(* separate_terminals, nullaryremove, unaryremove, cnf), Lehmann's closure *)
(* and the generalized left-corner transformation with its derivation      *)
(* mapping.  Every transformation is an operator that computes what the    *)
(* Python method computes; the specifications draw an input grammar from a *)
(* bounded family and apply the transformations to it.                     *)
(***************************************************************************)
EXTENDS Integers, Sequences, FiniteSets, TLC

VARIABLES
    g,      \* the grammar a transformation is applied to (a CFG object)
    i,      \* _gen_nt.i, the process-wide counter of invented names
    op,     \* the method that ran last ("new" after construction)
    out,    \* what that method returned
    Xs,     \* the Xs argument of lc_generalized
    Ps,     \* the Ps argument of lc_generalized
    d,      \* the derivation handed to GLCT.mapping
    N,      \* the node set handed to _lehmann
    W,      \* the chart handed to _lehmann
    md,     \* the derivation GLCT.mapping returned
    err,    \* the exception the last method raised, "" when it returned
    input,  \* the string handed to __call__
    res,    \* what a read or a second method returned
    cache,  \* the instance's cached rhs, None before the first read
    agenda_old,    \* agenda: the chart `old`
    agenda_change, \* agenda: the chart `change`, in insertion order
    agenda_iters   \* agenda: the iterations of the loop so far

vars == <<g, i, op, out, Xs, Ps, d, N, W, md, err, input, res, cache,
          agenda_old, agenda_change, agenda_iters>>

\* the state of __call__, rhs and the agenda loop
ext == <<input, res, cache, agenda_old, agenda_change, agenda_iters>>

-----------------------------------------------------------------------------
(* Bounds of the model.                                                    *)

MaxRules == 3       \* rules of a drawn grammar
MaxBody == 2        \* body length of a drawn rule
MaxStr == 3         \* length of the terminal strings compared
MaxGen == 1         \* largest initial value of the name counter
MaxLongBody == 3    \* body length of a drawn rule, grammars of few rules
MaxLongRules == 2   \* rules of a drawn grammar with long bodies
MaxHeight == 3      \* height of the derivations handed to GLCT.mapping
WeightCap == 100    \* largest total weight of a string that is compared

-----------------------------------------------------------------------------
(* Symbols.  A plain symbol is a Python string; Slash and Frozen are the   *)
(* classes of lines 40-86, equal when their fields are equal.              *)

Sym(n) == <<n>>
Slash(Y, Z, id) == <<"/", Y, Z, id>>
Frozen(X, id) == <<"~", X, id>>

IsSlash(x) == Len(x) = 4
IsFrozen(x) == Len(x) = 3

RECURSIVE Repr(_)
Repr(x) ==
    IF Len(x) = 1 THEN x[1]
    ELSE IF IsSlash(x)
         THEN IF x[4] = 0 THEN Repr(x[2]) \o "/" \o Repr(x[3])
              ELSE Repr(x[2]) \o "/" \o Repr(x[3]) \o "@" \o ToString(x[4])
         ELSE IF x[3] = 0 THEN "~" \o Repr(x[2])
              ELSE "~" \o Repr(x[2]) \o "@" \o ToString(x[3])

\* _gen_nt: the counter is incremented first, the name carries the new value.
gen_nt(prefix, n) == Sym(prefix \o "@" \o ToString(n + 1))

-----------------------------------------------------------------------------
(* The semiring (leftcorner.semiring): Boolean and the non-negative reals, *)
(* the latter on the integers.                                             *)

Zero(R) == IF R = "Boolean" THEN FALSE ELSE 0
One(R) == IF R = "Boolean" THEN TRUE ELSE 1
Plus(R, a, b) == IF R = "Boolean" THEN a \/ b ELSE a + b
Times(R, a, b) == IF R = "Boolean" THEN a /\ b ELSE a * b
\* star(x) = one + x + x*x + ...; on the integers it exists at 0 only.
Star(R, a) == IF R = "Boolean" THEN TRUE ELSE CASE a = 0 -> 1
Metric(R, a, b) ==
    IF R = "Boolean" THEN (IF a = b THEN 0 ELSE 1)
    ELSE (IF a >= b THEN a - b ELSE b - a)

\* a chart reads zero where it holds no entry
Lookup(R, chart, k) == IF k \in DOMAIN chart THEN chart[k] ELSE Zero(R)

-----------------------------------------------------------------------------
(* Sequence helpers.                                                       *)

Range(s) == {s[k] : k \in DOMAIN s}

\* Python's None
None == <<>>

RECURSIVE SetToSeq(_)
SetToSeq(S) ==
    IF S = {} THEN <<>>
    ELSE LET x == CHOOSE x \in S : TRUE IN <<x>> \o SetToSeq(S \ {x})

RECURSIVE SubsetsUpTo(_, _)
SubsetsUpTo(U, k) ==
    IF k = 0 THEN {{}}
    ELSE LET P == SubsetsUpTo(U, k - 1)
         IN  P \cup {p \cup {u} : p \in P, u \in U}

-----------------------------------------------------------------------------
(* Rule and CFG (lines 89-95, 162-167, 253-263).                           *)

Rule(w, head, body) == [w |-> w, head |-> head, body |-> body]

CFG(R, S, V) == [R |-> R, S |-> S, V |-> V, N |-> {S}, rules |-> <<>>]

spawn(self) == CFG(self.R, self.S, self.V)

spawnS(self, S) == CFG(self.R, S, self.V)

add(self, w, head, body) ==
    IF w = Zero(self.R) THEN self
    ELSE [self EXCEPT !.N = @ \cup {head},
                      !.rules = Append(@, Rule(w, head, body))]

is_terminal(self, x) == x \in self.V
is_nonterminal(self, x) == ~is_terminal(self, x)

RECURSIVE AddAll(_, _)
AddAll(self, rs) ==
    IF rs = <<>> THEN self
    ELSE AddAll(add(self, Head(rs).w, Head(rs).head, Head(rs).body), Tail(rs))

\* every symbol a grammar mentions
Symbols(self) ==
    self.N \cup self.V \cup UNION {Range(r.body) : r \in Range(self.rules)}

-----------------------------------------------------------------------------
(* trim (lines 295-339).                                                   *)

\* one pass of "for e in outgoing[x]" over e = rules[k..], C growing as it goes
RECURSIVE TrimUp(_, _, _, _, _)
TrimUp(self, x, k, C, agenda) ==
    IF k > Len(self.rules) THEN [C |-> C, agenda |-> agenda]
    ELSE LET e == self.rules[k]
         IN  IF x \in Range(e.body) /\ Range(e.body) \subseteq C /\ e.head \notin C
             THEN TrimUp(self, x, k + 1, C \cup {e.head}, agenda \cup {e.head})
             ELSE TrimUp(self, x, k + 1, C, agenda)

RECURSIVE BottomUp(_, _, _)
BottomUp(self, C, agenda) ==
    IF agenda = {} THEN C
    ELSE LET x == CHOOSE x \in agenda : TRUE
             r == TrimUp(self, x, 1, C, agenda \ {x})
         IN  BottomUp(self, r.C, r.agenda)

RECURSIVE TopDown(_, _, _, _)
TopDown(self, C, T, agenda) ==
    IF agenda = {} THEN T
    ELSE LET x == CHOOSE x \in agenda : TRUE
             new == {b \in UNION {Range(e.body) :
                            e \in {e \in Range(self.rules) : e.head = x}} :
                        b \notin T /\ b \in C}
         IN  TopDown(self, C, T \cup new, (agenda \ {x}) \cup new)

RECURSIVE TrimKeep(_, _, _, _)
TrimKeep(self, symbols, k, new) ==
    IF k > Len(self.rules) THEN new
    ELSE LET p == self.rules[k]
         IN  IF p.head \in symbols /\ p.w # Zero(self.R)
                   /\ Range(p.body) \subseteq symbols
             THEN TrimKeep(self, symbols, k + 1, add(new, p.w, p.head, p.body))
             ELSE TrimKeep(self, symbols, k + 1, new)

_trim(self, symbols) == TrimKeep(self, symbols, 1, spawn(self))

Productive(self) ==
    LET C0 == self.V \cup {e.head : e \in {e \in Range(self.rules) : e.body = <<>>}}
    IN  BottomUp(self, C0, C0)

trim(self) ==
    LET C == Productive(self)
    IN  _trim(self, TopDown(self, C, {self.S}, {self.S}))

-----------------------------------------------------------------------------
(* agenda (lines 660-701).  `change` is the chart the loop pops from: a    *)
(* list of (key, value) entries in insertion order, none of them zero;     *)
(* popitem takes the last.                                                 *)

max_iters == 10000

RECURSIVE ChangeAdd(_, _, _, _, _)
ChangeAdd(R, change, n, k, w) ==
    IF n > Len(change)
    THEN IF w = Zero(R) THEN change ELSE Append(change, <<k, w>>)
    ELSE IF change[n][1] = k
         THEN [change EXCEPT ![n] = <<k, Plus(R, change[n][2], w)>>]
         ELSE ChangeAdd(R, change, n + 1, k, w)

\* the (rule, position) pairs of routing[u], in the order they were appended
RECURSIVE Routing(_, _, _, _)
Routing(self, u, n, k) ==
    IF n > Len(self.rules) THEN <<>>
    ELSE IF k > Len(self.rules[n].body) THEN Routing(self, u, n + 1, 1)
         ELSE IF self.rules[n].body[k] = u
              THEN <<(<<n, k>>)>> \o Routing(self, u, n, k + 1)
              ELSE Routing(self, u, n, k + 1)

\* W = r.w * prod_j (new | v | old[u] | old[body[j]])
RECURSIVE AgendaW(_, _, _, _, _, _, _, _, _)
AgendaW(R, r, k, j, u, v, new, old, acc) ==
    IF j > Len(r.body) THEN acc
    ELSE LET f == IF u = r.body[j]
                  THEN IF j < k THEN new ELSE IF j = k THEN v ELSE Lookup(R, old, u)
                  ELSE Lookup(R, old, r.body[j])
         IN  AgendaW(R, r, k, j + 1, u, v, new, old, Times(R, acc, f))

RECURSIVE AgendaRoute(_, _, _, _, _, _, _)
AgendaRoute(self, route, u, v, new, old, change) ==
    IF route = <<>> THEN change
    ELSE LET r == self.rules[Head(route)[1]]
             w == AgendaW(self.R, r, Head(route)[2], 1, u, v, new, old, r.w)
         IN  AgendaRoute(self, Tail(route), u, v, new, old,
                         ChangeAdd(self.R, change, 1, r.head, w))

\* an iteration that propagates without the metric test
AgendaStep_NoMetric(self, old, change, n) ==
    LET u == change[n][1]
        v == change[n][2]
        rest == SubSeq(change, 1, n - 1) \o SubSeq(change, n + 1, Len(change))
        new == Plus(self.R, Lookup(self.R, old, u), v)
    IN  [old |-> [x \in DOMAIN old \cup {u} |-> IF x = u THEN new ELSE old[x]],
         change |-> AgendaRoute(self, Routing(self, u, 1, 1), u, v, new, old, rest)]

\* one iteration of the loop that pops entry n of change; popitem takes the
\* last entry, n = Len(change)
AgendaStep(self, old, change, n) ==
    LET u == change[n][1]
        v == change[n][2]
        rest == SubSeq(change, 1, n - 1) \o SubSeq(change, n + 1, Len(change))
        new == Plus(self.R, Lookup(self.R, old, u), v)
    IN  IF Metric(self.R, Lookup(self.R, old, u), new) = 0
        THEN [old |-> old, change |-> rest]
        ELSE [old |-> [x \in DOMAIN old \cup {u} |-> IF x = u THEN new ELSE old[x]],
              change |-> AgendaRoute(self, Routing(self, u, 1, 1), u, v, new, old, rest)]

RECURSIVE AgendaLoop(_, _, _, _)
AgendaLoop(self, old, change, iters) ==
    IF iters = max_iters \/ change = <<>> THEN old
    ELSE LET step == AgendaStep(self, old, change, Len(change))
         IN  AgendaLoop(self, step.old, step.change, iters + 1)

RECURSIVE AgendaNullary(_, _, _)
AgendaNullary(self, n, change) ==
    IF n > Len(self.rules) THEN change
    ELSE IF self.rules[n].body = <<>>
         THEN AgendaNullary(self, n + 1,
                  ChangeAdd(self.R, change, 1, self.rules[n].head, self.rules[n].w))
         ELSE AgendaNullary(self, n + 1, change)

\* change seeded with the terminals only, not with the nullary rules
AgendaSeed_NoNullary(self) ==
    LET terminals == SetToSeq(self.V)
    IN  [n \in 1..Len(terminals) |-> <<terminals[n], One(self.R)>>]

\* change as the loop finds it: one for every terminal, then the nullary rules
AgendaSeed(self) ==
    LET terminals == SetToSeq(self.V)
        change0 == [n \in 1..Len(terminals) |-> <<terminals[n], One(self.R)>>]
    IN  AgendaNullary(self, 1, change0)

agenda(self) == AgendaLoop(self, <<>>, AgendaSeed(self), 0)

-----------------------------------------------------------------------------
(* _lehmann (lines 393-412).  A chart over pairs is a function on pairs.   *)

RECURSIVE LehmannLoop(_, _, _, _)
LehmannLoop(R, nodes, js, U) ==
    IF js = <<>> THEN U
    ELSE LET j == Head(js)
             s == Star(R, Lookup(R, U, <<j, j>>))
             V == [ik \in nodes \X nodes |->
                     Plus(R, Lookup(R, U, ik),
                          Times(R, Times(R, Lookup(R, U, <<ik[1], j>>), s),
                                Lookup(R, U, <<j, ik[2]>>)))]
         IN  LehmannLoop(R, nodes, Tail(js), V)

\* _lehmann without the paths of length zero
_lehmann_NoIdentity(R, nodes, chart) ==
    LET V == LehmannLoop(R, nodes, SetToSeq(nodes), chart)
    IN  [ik \in DOMAIN V \cup {<<n, n>> : n \in nodes} |-> Lookup(R, V, ik)]

_lehmann(R, nodes, chart) ==
    LET V == LehmannLoop(R, nodes, SetToSeq(nodes), chart)
    IN  [ik \in DOMAIN V \cup {<<n, n>> : n \in nodes} |->
            IF ik[1] = ik[2] /\ ik[1] \in nodes
            THEN Plus(R, Lookup(R, V, ik), One(R))
            ELSE V[ik]]

-----------------------------------------------------------------------------
(* unaryremove (lines 414-434).                                            *)

IsUnaryNT(self, p) == Len(p.body) = 1 /\ is_nonterminal(self, p.body[1])

RECURSIVE UnaryChart(_, _, _)
UnaryChart(self, n, A) ==
    IF n > Len(self.rules) THEN A
    ELSE LET p == self.rules[n]
         IN  IF IsUnaryNT(self, p)
             THEN LET key == <<p.body[1], p.head>>
                  IN  UnaryChart(self, n + 1,
                          [x \in DOMAIN A \cup {key} |->
                              IF x = key THEN Plus(self.R, Lookup(self.R, A, key), p.w)
                              ELSE A[x]])
             ELSE UnaryChart(self, n + 1, A)

RECURSIVE UnaryEmitY(_, _, _, _, _)
UnaryEmitY(self, chart, p, Ys, new) ==
    IF Ys = <<>> THEN new
    ELSE UnaryEmitY(self, chart, p, Tail(Ys),
             add(new, Times(self.R, Lookup(self.R, chart, <<p.head, Head(Ys)>>), p.w),
                 Head(Ys), p.body))

RECURSIVE UnaryEmit(_, _, _, _)
UnaryEmit(self, chart, n, new) ==
    IF n > Len(self.rules) THEN new
    ELSE LET p == self.rules[n]
         IN  IF IsUnaryNT(self, p) THEN UnaryEmit(self, chart, n + 1, new)
             ELSE UnaryEmit(self, chart, n + 1,
                            UnaryEmitY(self, chart, p, SetToSeq(self.N), new))

\* unaryremove without the closure of the chain weights
unaryremove_NoClosure(self) ==
    UnaryEmit(self, _lehmann(self.R, self.N, <<>>), 1, spawn(self))

unaryremove(self) ==
    LET A == UnaryChart(self, 1, <<>>)
        chart == _lehmann(self.R, self.N, A)
    IN  UnaryEmit(self, chart, 1, spawn(self))

-----------------------------------------------------------------------------
(* binarize and _fold (lines 550-582).  A transformation that invents      *)
(* names takes the counter and returns it with the grammar.                *)

\* _fold(p, [(0, 1)]): the two rules that replace p
_fold(self, p, n) ==
    LET head == gen_nt("", n)
    IN  << Rule(One(self.R), head, SubSeq(p.body, 1, 2)),
           Rule(p.w, p.head, <<head>> \o SubSeq(p.body, 3, Len(p.body))) >>

RECURSIVE BinarizeLoop(_, _, _, _)
BinarizeLoop(self, stack, new, n) ==
    IF stack = <<>> THEN [cfg |-> new, i |-> n]
    ELSE LET p == stack[Len(stack)]
             rest == SubSeq(stack, 1, Len(stack) - 1)
         IN  IF Len(p.body) <= 2
             THEN BinarizeLoop(self, rest, add(new, p.w, p.head, p.body), n)
             ELSE BinarizeLoop(self, rest \o _fold(self, p, n), new, n + 1)

\* binarize that folds nothing
binarize_Keep(self, n) == [cfg |-> self, i |-> n]

binarize(self, n) == BinarizeLoop(self, self.rules, spawn(self), n)

-----------------------------------------------------------------------------
(* separate_start and separate_terminals (lines 515-548).                  *)

BodySymbols(self) == UNION {Range(r.body) : r \in Range(self.rules)}

separate_start(self, n) ==
    IF self.S \in BodySymbols(self)
    THEN LET S == gen_nt(Repr(self.S), n)
         IN  [cfg |-> AddAll(add(spawnS(self, S), One(self.R), S, <<self.S>>), self.rules),
              i |-> n + 1]
    ELSE [cfg |-> self, i |-> n]

\* the body of one rule, its terminals replaced by their preterminals; st is
\* the grammar under construction, the _preterminal dict and the counter
RECURSIVE SepBody(_, _, _, _, _)
SepBody(self, body, k, st, acc) ==
    IF k > Len(body) THEN [st |-> st, body |-> acc]
    ELSE LET y == body[k]
         IN  IF y \in self.V
             THEN IF y \in DOMAIN st.pre
                  THEN SepBody(self, body, k + 1, st, Append(acc, st.pre[y]))
                  ELSE LET h == gen_nt("", st.i)
                           st2 == [cfg |-> add(st.cfg, One(self.R), h, <<y>>),
                                   pre |-> [x \in DOMAIN st.pre \cup {y} |->
                                               IF x = y THEN h ELSE st.pre[x]],
                                   i |-> st.i + 1]
                       IN  SepBody(self, body, k + 1, st2, Append(acc, h))
             ELSE SepBody(self, body, k + 1, st, Append(acc, y))

RECURSIVE SepLoop(_, _, _)
SepLoop(self, n, st) ==
    IF n > Len(self.rules) THEN [cfg |-> st.cfg, i |-> st.i]
    ELSE LET r == self.rules[n]
         IN  IF Len(r.body) = 1 /\ is_terminal(self, r.body[1])
             THEN SepLoop(self, n + 1, [st EXCEPT !.cfg = add(@, r.w, r.head, r.body)])
             ELSE LET b == SepBody(self, r.body, 1, st, <<>>)
                  IN  SepLoop(self, n + 1,
                              [b.st EXCEPT !.cfg = add(@, r.w, r.head, b.body)])

\* separate_terminals that leaves every body as it is
separate_terminals_Keep(self, n) == [cfg |-> self, i |-> n]

separate_terminals(self, n) ==
    SepLoop(self, 1, [cfg |-> spawn(self), pre |-> <<>>, i |-> n])

-----------------------------------------------------------------------------
(* nullaryremove, null_weight, _push_null_weights (lines 436-513).         *)

RECURSIVE NoTerminalRules(_, _, _)
NoTerminalRules(self, n, ecfg) ==
    IF n > Len(self.rules) THEN ecfg
    ELSE LET p == self.rules[n]
         IN  IF \E y \in Range(p.body) : is_terminal(self, y)
             THEN NoTerminalRules(self, n + 1, ecfg)
             ELSE NoTerminalRules(self, n + 1, add(ecfg, p.w, p.head, p.body))

\* null_weight that finds no symbol nullable
null_weight_None(self) == <<>>

null_weight(self) == agenda(NoTerminalRules(self, 1, CFG(self.R, self.S, {})))

\* rename = lambda x: f'${x}'
rename(x) == Sym("$" \o Repr(x))

\* f(x): "Rename nonterminal if necessary"
PushName(self, nw, x) ==
    IF Lookup(self.R, nw, x) = Zero(self.R) \/ x = self.S THEN x ELSE rename(x)

RECURSIVE Pow2(_)
Pow2(n) == IF n = 0 THEN 1 ELSE 2 * Pow2(n - 1)

\* the k-th entry of the m-th tuple of product([0, 1], repeat=n)
MaskBit(m, n, k) == (m \div Pow2(n - k)) % 2

\* one mask B over rule r: the weight v and the body new_body
RECURSIVE PushMask(_, _, _, _, _, _, _)
PushMask(self, nw, r, m, k, v, body) ==
    IF k > Len(r.body) THEN [v |-> v, body |-> body]
    ELSE IF MaskBit(m, Len(r.body), k) = 1
         THEN PushMask(self, nw, r, m, k + 1,
                       Times(self.R, v, Lookup(self.R, nw, r.body[k])), body)
         ELSE PushMask(self, nw, r, m, k + 1, v,
                       Append(body, PushName(self, nw, r.body[k])))

RECURSIVE PushMasks(_, _, _, _, _)
PushMasks(self, nw, r, m, rcfg) ==
    IF m = Pow2(Len(r.body)) THEN rcfg
    ELSE LET b == PushMask(self, nw, r, m, 1, r.w, <<>>)
         IN  IF Len(b.body) > 0
             THEN PushMasks(self, nw, r, m + 1,
                            add(rcfg, b.v, PushName(self, nw, r.head), b.body))
             ELSE PushMasks(self, nw, r, m + 1, rcfg)

RECURSIVE PushRules(_, _, _, _)
PushRules(self, nw, n, rcfg) ==
    IF n > Len(self.rules) THEN rcfg
    ELSE IF Len(self.rules[n].body) = 0 THEN PushRules(self, nw, n + 1, rcfg)
         ELSE PushRules(self, nw, n + 1, PushMasks(self, nw, self.rules[n], 0, rcfg))

\* the assertion of line 478
PushAsserts(self) == self.S \notin BodySymbols(self)

\* _push_null_weights without the nullary rule of the start symbol
_push_null_weights_NoStart(self, nw) == PushRules(self, nw, 1, spawn(self))

\* recovery = False
_push_null_weights(self, nw) ==
    PushRules(self, nw, 1, add(spawn(self), Lookup(self.R, nw, self.S), self.S, <<>>))

\* binarize = True; err tells whether the assertion of line 478 failed
nullaryremove(self, n) ==
    LET b == binarize(self, n)
        s == separate_start(b.cfg, b.i)
    IN  IF PushAsserts(s.cfg)
        THEN [cfg |-> _push_null_weights(s.cfg, null_weight(s.cfg)), i |-> s.i, err |-> ""]
        ELSE [cfg |-> None, i |-> s.i, err |-> "AssertionError"]

-----------------------------------------------------------------------------
(* cnf and in_cnf (lines 584-621).                                         *)

RuleInCnf(self, r) ==
    \/ Len(r.body) = 0 /\ r.head = self.S
    \/ Len(r.body) = 1 /\ is_terminal(self, r.body[1])
    \/ Len(r.body) = 2 /\ \A y \in Range(r.body) : is_nonterminal(self, y) /\ y # self.S

in_cnf(self) == \A r \in Range(self.rules) : RuleInCnf(self, r)

cnf(self, n) ==
    LET t == separate_terminals(self, n)
        b == binarize(t.cfg, t.i)
        z == nullaryremove(b.cfg, b.i)
    IN  IF z.err # "" THEN z
        ELSE LET new == trim(unaryremove(z.cfg))
             IN  IF in_cnf(new) THEN [cfg |-> new, i |-> z.i, err |-> ""]
                 ELSE [cfg |-> None, i |-> z.i, err |-> "AssertionError"]

-----------------------------------------------------------------------------
(* Left-recursion analysis (lines 735-799).                                *)

\* the edges head -> body[0] of _left_recursion_graph(rules)
LeftCornerEdges(rules) == {<<p.head, p.body[1]>> : p \in {p \in rules : p.body # <<>>}}

\* the nodes reachable from the set T along the edges E, T included
RECURSIVE ReachAlong(_, _)
ReachAlong(E, T) ==
    LET T2 == T \cup {e[2] : e \in {e \in E : e[1] \in T}}
    IN  IF T2 = T THEN T ELSE ReachAlong(E, T2)

\* the rules whose head and left corner lie in one strongly connected
\* component of the left-corner graph
find_lr_rules(self) ==
    LET E == LeftCornerEdges(Range(self.rules))
    IN  {r \in Range(self.rules) :
            r.body # <<>> /\ r.head \in ReachAlong(E, {r.body[1]})}

is_left_recursive(self) == find_lr_rules(self) # {}

sufficient_Xs(self, rs) ==
    (self.V \cup {p.head : p \in Range(self.rules) \ rs})
        \cap {p.body[1] : p \in rs}

-----------------------------------------------------------------------------
(* SlashNames and GLCT.__init__ (lines 802-818, 911-991).  A GLCT object   *)
(* is a CFG with the fields Xs, Ps, filter, id and parent.                 *)

_slash(self, X, Y) ==
    IF Slash(X, Y, 0) \notin self.parent.N THEN Slash(X, Y, 0)
    ELSE Slash(X, Y, self.id)

\* _frozen that leaves every symbol as it is
_frozen_Plain(self, X) == X

_frozen(self, X) ==
    IF is_terminal(self, X) THEN X
    ELSE IF Frozen(X, 0) \notin self.parent.N THEN Frozen(X, 0)
         ELSE Frozen(X, self.id)

\* the assertions of lines 914-915
GLCTAsserts(parent, rs) ==
    /\ rs \subseteq Range(parent.rules)
    /\ \A r \in rs : Len(r.body) > 0

\* retained without the start symbol
Retained_NoStart(parent, rs, filter) ==
    IF filter
    THEN UNION {{p.body[k] : k \in {k \in DOMAIN p.body :
                                      /\ k > (IF p \in rs THEN 1 ELSE 0)
                                      /\ is_nonterminal(parent, p.body[k])}} :
                p \in Range(parent.rules)}
    ELSE parent.N

\* retained: the symbols that appear outside the left-corner paths
Retained(parent, rs, filter) ==
    IF filter
    THEN {parent.S} \cup
         UNION {{p.body[k] : k \in {k \in DOMAIN p.body :
                                      /\ k > (IF p \in rs THEN 1 ELSE 0)
                                      /\ is_nonterminal(parent, p.body[k])}} :
                p \in Range(parent.rules)}
    ELSE parent.N

\* den2num[den]: reflexive transitive closure of the reversed left-corner
\* graph of Ps
Den2Num(rs, den) ==
    ReachAlong({<<e[2], e[1]>> : e \in LeftCornerEdges(rs)}, {den})

NumGivenDen(parent, rs, filter, den) ==
    IF filter
    THEN IF den \in parent.N \cup parent.V
         THEN Den2Num(rs, den) \cap Retained(parent, rs, filter)
         ELSE {}
    ELSE parent.N

UsefulNum(parent, xs, rs, filter) ==
    IF filter
    THEN {num \in UNION {Den2Num(rs, den) : den \in xs} :
             num \in Retained(parent, rs, filter)}
    ELSE parent.N \cup parent.V

UsefulMid(parent, xs, rs, filter) ==
    IF filter
    THEN {mid \in UNION {Den2Num(rs, den) : den \in xs} :
             Den2Num(rs, mid) \cap Retained(parent, rs, filter) # {}}
    ELSE parent.N \cup parent.V

\* "for X in useful_num: add(one, slash(X, X))"
RECURSIVE GLCTBase(_, _)
GLCTBase(self, xs) ==
    IF xs = <<>> THEN self
    ELSE GLCTBase(add(self, One(self.R), _slash(self, Head(xs), Head(xs)), <<>>), Tail(xs))

\* "for Y in num_given_den(body[0])" of one rule p of Ps
RECURSIVE GLCTSlashRules(_, _, _, _)
GLCTSlashRules(self, p, ys, mid) ==
    IF ys = <<>> THEN self
    ELSE IF p.body[1] \notin mid THEN GLCTSlashRules(self, p, Tail(ys), mid)
         ELSE GLCTSlashRules(
                  add(self, p.w, _slash(self, Head(ys), p.body[1]),
                      Tail(p.body) \o <<_slash(self, Head(ys), p.head)>>),
                  p, Tail(ys), mid)

\* "for p in parent": the slashed and frozen rules
RECURSIVE GLCTRules(_, _, _)
GLCTRules(self, n, mid) ==
    IF n > Len(self.parent.rules) THEN self
    ELSE LET p == self.parent.rules[n]
         IN  IF p \notin self.Ps
             THEN GLCTRules(add(self, p.w, _frozen(self, p.head), p.body), n + 1, mid)
             ELSE LET ys == SetToSeq(NumGivenDen(self.parent, self.Ps, self.filter,
                                                 p.body[1]))
                      s1 == GLCTSlashRules(self, p, ys, mid)
                      s2 == IF p.body[1] \notin self.Xs
                            THEN add(s1, p.w, _frozen(self, p.head),
                                     <<_frozen(self, p.body[1])>> \o Tail(p.body))
                            ELSE s1
                  IN  GLCTRules(s2, n + 1, mid)

\* "for Y in retained - Xs: add(one, Y, frozen(Y))"
RECURSIVE GLCTRecoverFrozen(_, _)
GLCTRecoverFrozen(self, ys) ==
    IF ys = <<>> THEN self
    ELSE GLCTRecoverFrozen(
             add(self, One(self.R), Head(ys), <<_frozen(self, Head(ys))>>), Tail(ys))

\* "for Y in num_given_den(X): add(one, Y, frozen(X), slash(Y, X))"
RECURSIVE GLCTRecoverSlashY(_, _, _)
GLCTRecoverSlashY(self, X, ys) ==
    IF ys = <<>> THEN self
    ELSE GLCTRecoverSlashY(
             add(self, One(self.R), Head(ys),
                 <<_frozen(self, X), _slash(self, Head(ys), X)>>),
             X, Tail(ys))

RECURSIVE GLCTRecoverSlash(_, _)
GLCTRecoverSlash(self, xs) ==
    IF xs = <<>> THEN self
    ELSE GLCTRecoverSlash(
             GLCTRecoverSlashY(self, Head(xs),
                 SetToSeq(NumGivenDen(self.parent, self.Ps, self.filter, Head(xs)))),
             Tail(xs))

\* the KeyError of den2num[den] at line 952 for a den that is no symbol of
\* the parent grammar
GLCTKeys(parent, xs, filter) == filter => xs \subseteq parent.N \cup parent.V

GLCT(parent, xs, rs, filter, id) ==
    LET self == [R |-> parent.R, S |-> parent.S, V |-> parent.V, N |-> {parent.S},
                 rules |-> <<>>, Xs |-> xs, Ps |-> rs, filter |-> filter, id |-> id,
                 parent |-> parent]
        s1 == GLCTBase(self, SetToSeq(UsefulNum(parent, xs, rs, filter)))
        s2 == GLCTRules(s1, 1, UsefulMid(parent, xs, rs, filter))
        s3 == GLCTRecoverFrozen(s2, SetToSeq(Retained(parent, rs, filter) \ xs))
    IN  GLCTRecoverSlash(s3, SetToSeq(xs))

\* lc_generalized (lines 646-651) with its defaults filter = True, id = 0
lc_generalized(self, xs, rs) == GLCT(self, xs, rs, TRUE, 0)

elim_left_recursion(self) ==
    LET rs == find_lr_rules(self)
    IN  lc_generalized(self, sufficient_Xs(self, rs), rs)

-----------------------------------------------------------------------------
(* Derivations (lines 114-149, 341-362, 1060-1066).  A derivation is a     *)
(* record [r, x, ys]; a leaf, which in the program is the terminal itself, *)
(* is the record [x] with no other field.                                  *)

Leaf(x) == [x |-> x]

Derivation(r, x, ys) == [r |-> r, x |-> x, ys |-> ys]

IsDerivation(t) == "ys" \in DOMAIN t

label(t) == t.x

tree(x, ys) == Derivation(Rule(None, x, [k \in DOMAIN ys |-> label(ys[k])]), x, ys)

RECURSIVE Yield(_)
Yield(t) ==
    IF ~IsDerivation(t) THEN <<t.x>>
    ELSE IF t.ys = <<>> THEN <<>>
         ELSE Yield(Head(t.ys)) \o Yield([t EXCEPT !.ys = Tail(@)])

\* Derivation.weight
RECURSIVE weight(_, _)
weight(R, t) ==
    IF t.ys = <<>> THEN t.r.w
    ELSE LET rest == weight(R, [t EXCEPT !.ys = SubSeq(@, 1, Len(@) - 1)])
             y == t.ys[Len(t.ys)]
         IN  IF IsDerivation(y) THEN Times(R, rest, weight(R, y)) ELSE rest

\* derivations(X, H) and _derivations_list(X, H), as sets
RECURSIVE derivations(_, _, _)
RECURSIVE derivations_list(_, _, _)
derivations(self, X, H) ==
    IF is_terminal(self, X) THEN {Leaf(X)}
    ELSE IF H <= 0 THEN {}
         ELSE UNION {{Derivation(r, X, ys) : ys \in derivations_list(self, r.body, H - 1)} :
                        r \in {r \in Range(self.rules) : r.head = X}}

derivations_list(self, body, H) ==
    IF body = <<>> THEN {<<>>}
    ELSE {<<x>> \o xs : x \in derivations(self, Head(body), H),
                        xs \in derivations_list(self, Tail(body), H)}

-----------------------------------------------------------------------------
(* Speculation.mapping and GLCT.mapping (lines 867-908, 997-1021).  The    *)
(* speculation a GLCT object maps through has its parent, Xs, Ps and id.   *)

RECURSIVE MapAll(_, _)
RECURSIVE speculation_mapping(_, _)

speculation_mapping(self, t) ==
    IF ~IsDerivation(t) THEN t
    ELSE IF t.r \notin self.Ps
    THEN LET rest == MapAll(self, t.ys)
         IN  IF t.x \in self.Xs
             THEN tree(t.x, << tree(_frozen(self, t.x), rest),
                               tree(_slash(self, t.x, t.x), <<>>) >>)
             ELSE tree(t.x, << tree(_frozen(self, t.x), rest) >>)
    ELSE LET d0 == speculation_mapping(self, t.ys[1])
             rest == MapAll(self, Tail(t.ys))
             dd == IF IsDerivation(d0) THEN d0
                   ELSE IF d0.x \in self.Xs
                        THEN tree(d0.x, <<d0, tree(_slash(self, d0.x, d0.x), <<>>)>>)
                        ELSE tree(d0.x, <<d0>>)
         IN  IF Len(dd.ys) = 1
             THEN LET o == dd.ys[1]
                  IN  IF t.x \in self.Xs
                      THEN tree(t.x, << tree(_frozen(self, t.x), <<o>> \o rest),
                                        tree(_slash(self, t.x, t.x), <<>>) >>)
                      ELSE tree(t.x, << tree(_frozen(self, t.x), <<o>> \o rest) >>)
             ELSE LET o == dd.ys[1]
                      s == dd.ys[2]
                      name == IF IsDerivation(o)
                              THEN (IF IsFrozen(o.x) THEN o.x[2] ELSE o.x)
                              ELSE o.x
                  IN  tree(t.x, << o, tree(_slash(self, t.x, name), <<s>> \o rest) >>)

MapAll(self, ts) == [k \in DOMAIN ts |-> speculation_mapping(self, ts[k])]

\* _mapping: "transposes the slash items"
RECURSIVE _mapping(_, _)
RECURSIVE Transpose(_, _, _, _)

\* the loops of lines 1010-1019 together: curr walks down the spine, the
\* transposed tree `new` grows upward
Transpose(self, num, curr, new) ==
    IF Len(curr.ys) = 0 THEN new
    ELSE LET s == curr.ys[1].x
             rest == [k \in 1..(Len(curr.ys) - 1) |-> _mapping(self, curr.ys[k + 1])]
         IN  Transpose(self, num, curr.ys[1],
                       tree(_slash(self, num, s[2]), rest \o <<new>>))

_mapping(self, t) ==
    IF ~IsDerivation(t) THEN t
    ELSE IF IsSlash(t.x)
         THEN Transpose(self, t.x[2], t, tree(_slash(self, t.x[2], t.x[2]), <<>>))
         ELSE tree(t.x, [k \in DOMAIN t.ys |-> _mapping(self, t.ys[k])])

\* mapping without the transposition of the slash items
mapping_NoTranspose(self, t) == speculation_mapping(self, t)

mapping(self, t) == _mapping(self, speculation_mapping(self, t))

-----------------------------------------------------------------------------
(* The grammars the specifications draw from: every list of at most        *)
(* MaxRules distinct rules with the given heads, body symbols and weights, *)
(* built by the constructor and add.                                       *)

Bodies(syms, len) == UNION {[1..k -> syms] : k \in 0..len}

RuleUniverse(ws, heads, syms, len) == [w : ws, head : heads, body : Bodies(syms, len)]

FamilyOf(R, S, V, ws, heads, syms, len, n) ==
    {AddAll(CFG(R, S, V), SetToSeq(rs)) :
        rs \in SubsetsUpTo(RuleUniverse(ws, heads, syms, len), n)}

Family(R, S, V, ws, heads, syms) ==
    FamilyOf(R, S, V, ws, heads, syms, MaxBody, MaxRules)

\* start symbol S, nonterminals S, A, B, terminals a, b
sS == Sym("S")
sA == Sym("A")
sB == Sym("B")
sa == Sym("a")
sb == Sym("b")

-----------------------------------------------------------------------------
(* What a grammar generates, from the definition of a derivation           *)
(* (lines 341-388): the least sets closed under the rules.                 *)

RulesOf(G) == Range(G.rules)

UsedSymbols(G) == {r.head : r \in RulesOf(G)} \cup UNION {Range(r.body) : r \in RulesOf(G)}

\* symbols reachable from the start symbol through the rules of G
RECURSIVE ReachFrom(_, _)
ReachFrom(G, T) ==
    LET T2 == T \cup UNION {Range(r.body) : r \in {r \in RulesOf(G) : r.head \in T}}
    IN  IF T2 = T THEN T ELSE ReachFrom(G, T2)

ReachableIn(G) == ReachFrom(G, {G.S})

\* symbols that derive a terminal string through the rules of G
RECURSIVE GenFrom(_, _)
GenFrom(G, C) ==
    LET C2 == C \cup {r.head : r \in {r \in RulesOf(G) : Range(r.body) \subseteq C}}
    IN  IF C2 = C THEN C ELSE GenFrom(G, C2)

GeneratingIn(G) == GenFrom(G, G.V)

\* the terminal strings of length at most n
Strs(V, n) == {s : s \in UNION {[1..k -> V] : k \in 0..n}}

\* s is a concatenation of strings of L[body[1]], L[body[2]], ...
RECURSIVE Match(_, _, _)
Match(L, body, s) ==
    IF body = <<>> THEN s = <<>>
    ELSE \E k \in 0..Len(s) :
            /\ SubSeq(s, 1, k) \in L[Head(body)]
            /\ Match(L, Tail(body), SubSeq(s, k + 1, Len(s)))

\* L[X]: the strings of length at most MaxStr that X yields (derivations_of)
RECURSIVE LangFrom(_, _, _)
LangFrom(G, strs, L) ==
    LET L2 == [X \in DOMAIN L |->
                 IF X \in G.V THEN L[X]
                 ELSE L[X] \cup {s \in strs \ L[X] :
                         \E r \in RulesOf(G) : r.head = X /\ Match(L, r.body, s)}]
    IN  IF L2 = L THEN L ELSE LangFrom(G, strs, L2)

Lang(G) ==
    LangFrom(G, Strs(G.V, MaxStr),
             [X \in Symbols(G) |-> IF X \in G.V THEN {<<X>>} ELSE {}])

\* the strings of length at most MaxStr that G derives from its start symbol
Language(G) == Lang(G)[G.S]

-----------------------------------------------------------------------------
(* Specification of trim and cotrim.                                       *)

TrimFamily == Family("Boolean", sS, {sa}, {TRUE}, {sS, sA}, {sS, sA, sB, sa})

NoLC == /\ Xs = {} /\ Ps = {} /\ d = None /\ md = None

NoChart == /\ N = {} /\ W = None

NoExt ==
    /\ input = None /\ res = None /\ cache = None
    /\ agenda_old = None /\ agenda_change = <<>> /\ agenda_iters = 0

Idle == NoLC /\ NoChart /\ err = ""

InitTrim ==
    /\ g \in TrimFamily
    /\ op = "new"
    /\ out = None
    /\ i = 0
    /\ Idle
    /\ NoExt

Trim ==
    /\ op = "new"
    /\ out' = trim(g)
    /\ op' = "trim"
    /\ UNCHANGED <<g, i, Xs, Ps, d, N, W, md, err>>
    /\ UNCHANGED ext

Cotrim ==
    /\ op = "new"
    /\ out' = _trim(g, Productive(g))
    /\ op' = "cotrim"
    /\ UNCHANGED <<g, i, Xs, Ps, d, N, W, md, err>>
    /\ UNCHANGED ext

NextTrim == Trim \/ Cotrim

SpecTrim == InitTrim /\ [][NextTrim]_vars

\* C1: no rule of trim(g) contains an unreachable or unproductive symbol:
\* every symbol of a rule of trim(g) is reachable from the start symbol
\* through the rules of trim(g), and every nonterminal of a rule of trim(g)
\* derives a terminal string through the rules of trim(g).
C1_TrimNoUselessSymbol ==
    op = "trim" =>
        \A x \in UsedSymbols(out) :
            /\ x \in ReachableIn(out)
            /\ (x \notin out.V => x \in GeneratingIn(out))

-----------------------------------------------------------------------------
(* Specification of the normal-form transformations.                       *)

\* scenario 2 of the specification: S -> A B, A -> a, A -> (empty), B -> b
Scenario2 ==
    AddAll(CFG("Boolean", sS, {sa, sb}),
           << Rule(TRUE, sS, <<sA, sB>>), Rule(TRUE, sA, <<sa>>),
              Rule(TRUE, sA, <<>>), Rule(TRUE, sB, <<sb>>) >>)

\* scenario 6: S -> a S b, S -> (empty)
Scenario6 ==
    AddAll(CFG("Boolean", sS, {sa, sb}),
           << Rule(TRUE, sS, <<sa, sS, sb>>), Rule(TRUE, sS, <<>>) >>)

NormFamily ==
    Family("Boolean", sS, {sa, sb}, {TRUE}, {sS, sA}, {sS, sA, sa, sb})
        \cup FamilyOf("Boolean", sS, {sa, sb}, {TRUE}, {sS, sA}, {sS, sA, sa},
                      MaxLongBody, MaxLongRules)
        \cup {Scenario2, Scenario6}

InitNorm ==
    /\ g \in NormFamily
    /\ i \in 0..MaxGen
    /\ op = "new"
    /\ out = None
    /\ Idle
    /\ NoExt

\* a method that returns [cfg, i] or [cfg, i, err]
Returns(name, r) ==
    /\ op = "new"
    /\ op' = name
    /\ out' = r.cfg
    /\ i' = r.i
    /\ UNCHANGED <<g, Xs, Ps, d, N, W, md>>
    /\ UNCHANGED ext

SeparateTerminals == Returns("separate_terminals", separate_terminals(g, i)) /\ err' = ""

Binarize == Returns("binarize", binarize(g, i)) /\ err' = ""

SeparateStart == Returns("separate_start", separate_start(g, i)) /\ err' = ""

NullaryRemove ==
    LET r == nullaryremove(g, i) IN Returns("nullaryremove", r) /\ err' = r.err

UnaryRemove == Returns("unaryremove", [cfg |-> unaryremove(g), i |-> i]) /\ err' = ""

Cnf == LET r == cnf(g, i) IN Returns("cnf", r) /\ err' = r.err

NextNorm ==
    \/ SeparateTerminals
    \/ Binarize
    \/ SeparateStart
    \/ NullaryRemove
    \/ UnaryRemove
    \/ Cnf

SpecNorm == InitNorm /\ [][NextNorm]_vars

NullaryRules(G) == {k \in DOMAIN G.rules : G.rules[k].body = <<>>}

\* C2: cnf completes without a failed assertion, and every rule of cnf(g) is
\* nullary with the start symbol as head, unary with a terminal body, or
\* binary with two nonterminal body symbols neither of which is the start.
C2_CnfForm ==
    op = "cnf" =>
        /\ err = ""
        /\ \A r \in RulesOf(out) :
              \/ r.body = <<>> /\ r.head = out.S
              \/ Len(r.body) = 1 /\ r.body[1] \in out.V
              \/ /\ Len(r.body) = 2
                 /\ r.body[1] \notin out.V \cup {out.S}
                 /\ r.body[2] \notin out.V \cup {out.S}

\* the original wording of C3: nullaryremove yields a grammar with exactly
\* one nullary rule, and the head of that rule is the result's start symbol.
C3_ExactlyOneNullaryRule ==
    (op = "nullaryremove" /\ err = "") =>
        /\ Cardinality(NullaryRules(out)) = 1
        /\ \A k \in NullaryRules(out) : out.rules[k].head = out.S

\* C3 (amended): nullaryremove yields a grammar with at most one nullary
\* rule, the head of that rule is the result's start symbol, and the rule is
\* there exactly when g derives the empty string from its start symbol.
C3_AtMostOneNullaryRule ==
    (op = "nullaryremove" /\ err = "") =>
        /\ Cardinality(NullaryRules(out)) <= 1
        /\ \A k \in NullaryRules(out) : out.rules[k].head = out.S
        /\ (NullaryRules(out) # {}) <=> (<<>> \in Language(g))

\* C4: nullaryremove preserves the language: nullaryremove(g) derives a
\* terminal string of length at most MaxStr from its start symbol iff g does.
C4_NullaryRemovePreservesLanguage ==
    (op = "nullaryremove" /\ err = "") => Language(out) = Language(g)

\* some symbol of G reaches itself through one or more steps head -> body[0]
HasLeftCornerCycle(G) ==
    LET E == LeftCornerEdges(RulesOf(G))
    IN  \E e \in E : e[1] \in ReachAlong(E, {e[2]})

-----------------------------------------------------------------------------
(* Specification of the generalized left-corner transformation and its     *)
(* derivation mapping.                                                     *)

\* the k-th rule of a drawn grammar weighs the k-th prime, so that the
\* weight of a derivation tells which rules it uses and how often
PrimeWeights == <<2, 3, 5, 7, 11>>

Weighted(G) ==
    [G EXCEPT !.R = "Real",
              !.rules = [k \in DOMAIN G.rules |->
                            [G.rules[k] EXCEPT !.w = PrimeWeights[k]]]]

\* scenario 5: S -> S a, S -> b
Scenario5 ==
    AddAll(CFG("Boolean", sS, {sa, sb}),
           << Rule(TRUE, sS, <<sS, sa>>), Rule(TRUE, sS, <<sb>>) >>)

LCFamily ==
    {Weighted(G) : G \in Family("Boolean", sS, {sa}, {TRUE}, {sS, sA}, {sS, sA, sa})
                           \cup {Scenario5}}
        \cup {Scenario5}

InitLC ==
    /\ g \in LCFamily
    /\ Xs \in SUBSET (g.N \cup g.V)
    /\ Ps \in SUBSET {r \in Range(g.rules) : r.body # <<>>}
    /\ op = "new"
    /\ out = None
    /\ i = 0
    /\ d = None
    /\ md = None
    /\ NoChart
    /\ err = ""
    /\ NoExt

LcGeneralized ==
    /\ op = "new"
    /\ GLCTAsserts(g, Ps) /\ GLCTKeys(g, Xs, TRUE)
    /\ out' = lc_generalized(g, Xs, Ps)
    /\ op' = "lc_generalized"
    /\ UNCHANGED <<g, i, Xs, Ps, d, N, W, md, err>>
    /\ UNCHANGED ext

Mapping ==
    /\ op = "lc_generalized"
    /\ \E t \in derivations(g, g.S, MaxHeight) :
          /\ d' = t
          /\ md' = mapping(out, t)
    /\ op' = "mapping"
    /\ UNCHANGED <<g, i, Xs, Ps, out, N, W, err>>
    /\ UNCHANGED ext

NextLC == LcGeneralized \/ Mapping

SpecLC == InitLC /\ [][NextLC]_vars

\* the rules of G an internal node with this label and these children matches
Matched(G, t) ==
    {r \in RulesOf(G) : r.head = t.x /\ r.body = [k \in DOMAIN t.ys |-> label(t.ys[k])]}

\* every internal node of t matches one rule of G
RECURSIVE ValidDerivation(_, _)
ValidDerivation(G, t) ==
    IF ~IsDerivation(t) THEN t.x \in G.V
    ELSE /\ Cardinality(Matched(G, t)) = 1
         /\ \A k \in DOMAIN t.ys : ValidDerivation(G, t.ys[k])

\* the product of the weights of the rules the nodes of t match
RECURSIVE MatchedWeight(_, _)
RECURSIVE MatchedWeights(_, _, _)
MatchedWeight(G, t) ==
    IF ~IsDerivation(t) THEN One(G.R)
    ELSE MatchedWeights(G, t.ys, (CHOOSE r \in Matched(G, t) : TRUE).w)

MatchedWeights(G, ts, acc) ==
    IF ts = <<>> THEN acc
    ELSE MatchedWeights(G, Tail(ts), Times(G.R, acc, MatchedWeight(G, Head(ts))))

\* C7: GLCT.mapping(d) is a valid derivation of lc_generalized(g, Xs, Ps),
\* has the yield of d and the weight of d, and no other derivation of g
\* (of height at most MaxHeight) is mapped to the same tree.
C7_MappingIsDerivation ==
    op = "mapping" =>
        /\ ValidDerivation(out, md)
        /\ md.x = g.S
        /\ Yield(md) = Yield(d)
        /\ MatchedWeight(out, md) = weight(g.R, d)
        /\ \A t \in derivations(g, g.S, MaxHeight) : mapping(out, t) = md => t = d

RuleSa == Rule(TRUE, sS, <<sS, sa>>)

\* the original wording of C10: for S -> S a, S -> b, lc_generalized with
\* Xs = {b} and Ps = {S -> S a} produces a grammar that is not left-recursive.
C10_NotLeftRecursiveXsB ==
    (op = "lc_generalized" /\ g = Scenario5 /\ Xs = {sb} /\ Ps = {RuleSa})
        => ~HasLeftCornerCycle(out)

\* C10 (amended): for S -> S a, S -> b and Ps = {S -> S a}, lc_generalized
\* produces a grammar that is not left-recursive when Xs = {S}, and more
\* generally exactly when S is in Xs; with Xs = {b} the result keeps the
\* left-recursive rule ~S -> ~S a.
C10_NotLeftRecursiveIffSInXs ==
    (op = "lc_generalized" /\ g = Scenario5 /\ Ps = {RuleSa})
        => (~HasLeftCornerCycle(out) <=> sS \in Xs)

-----------------------------------------------------------------------------
(* Specification of elim_left_recursion.                                   *)

\* S -> S b, S -> A b, A -> S a, A -> a: every nonterminal is productive and
\* reachable, the first three rules are left-recursive
LeftRecursive4 ==
    AddAll(CFG("Boolean", sS, {sa, sb}),
           << Rule(TRUE, sS, <<sS, sb>>), Rule(TRUE, sS, <<sA, sb>>),
              Rule(TRUE, sA, <<sS, sa>>), Rule(TRUE, sA, <<sa>>) >>)

\* S -> S S | a   (the scenario of C9)
Scenario4 ==
    AddAll(CFG("Boolean", sS, {sa}),
           << Rule(TRUE, sS, <<sS, sS>>), Rule(TRUE, sS, <<sa>>) >>)

ELRFamily ==
    Family("Boolean", sS, {sa, sb}, {TRUE}, {sS, sA}, {sS, sA, sa, sb})
        \cup {LeftRecursive4, Scenario4}

InitELR ==
    /\ g \in ELRFamily
    /\ op = "new"
    /\ out = None
    /\ i = 0
    /\ Idle
    /\ NoExt

ElimLeftRecursion ==
    /\ op = "new"
    /\ out' = elim_left_recursion(g)
    /\ op' = "elim_left_recursion"
    /\ UNCHANGED <<g, i, Xs, Ps, d, N, W, md, err>>
    /\ UNCHANGED ext

\* find_lr_rules() of the grammar elim_left_recursion returned
FindLrRules ==
    /\ op = "elim_left_recursion"
    /\ out' = find_lr_rules(out)
    /\ op' = "find_lr_rules"
    /\ UNCHANGED <<g, i, Xs, Ps, d, N, W, md, err>>
    /\ UNCHANGED ext

NextELR == ElimLeftRecursion \/ FindLrRules

SpecELR == InitELR /\ [][NextELR]_vars

\* C8: elim_left_recursion(g) has no left-recursive cycle: no symbol of the
\* result reaches itself through head -> body[0], and find_lr_rules of the
\* result is empty.
C8_NoLeftRecursion ==
    /\ op = "elim_left_recursion" => ~HasLeftCornerCycle(out)
    /\ op = "find_lr_rules" => out = {}

\* C9: elim_left_recursion preserves the language: elim_left_recursion(g)
\* derives a terminal string of length at most MaxStr from the start symbol
\* iff g does.
C9_ElimPreservesLanguage ==
    op = "elim_left_recursion" => Language(out) = Language(g)

-----------------------------------------------------------------------------
(* The weighted language: the total weight of the derivations of a string. *)

\* the sum over the splits s = s[1..k] \o s[k+1..] , k = from..Len(s), of
\* L[body[1]][s[1..k]] times the weight of the rest of the body on s[k+1..]
RECURSIVE MatchW(_, _, _, _, _)
MatchW(R, L, body, s, from) ==
    IF body = <<>> THEN (IF s = <<>> THEN One(R) ELSE Zero(R))
    ELSE IF from > Len(s) THEN Zero(R)
    ELSE Plus(R,
              Times(R, L[Head(body)][SubSeq(s, 1, from)],
                    MatchW(R, L, Tail(body), SubSeq(s, from + 1, Len(s)), 0)),
              MatchW(R, L, body, s, from + 1))

\* the sum over the rules n.. of G with head X of w times the weight of the body
RECURSIVE RulesW(_, _, _, _, _)
RulesW(G, L, X, s, n) ==
    IF n > Len(G.rules) THEN Zero(G.R)
    ELSE LET p == G.rules[n]
         IN  IF p.head = X
             THEN Plus(G.R, Times(G.R, p.w, MatchW(G.R, L, p.body, s, 0)),
                       RulesW(G, L, X, s, n + 1))
             ELSE RulesW(G, L, X, s, n + 1)

\* one more level of derivation height
WStep(G, strs, L) ==
    [X \in DOMAIN L |->
        [s \in strs |->
            IF X \in G.V THEN (IF s = <<X>> THEN One(G.R) ELSE Zero(G.R))
            ELSE RulesW(G, L, X, s, 1)]]

Exceeds(R, L) ==
    R = "Real" /\ \E X \in DOMAIN L : \E s \in DOMAIN L[X] : L[X][s] > WeightCap

\* a grammar with finitely many derivations of each string of length at most
\* MaxStr has none higher than |symbols| * (MaxStr + 1): the iteration is
\* stable by then, or some string has infinitely many derivations
\* (a total above WeightCap is taken for one that grows without end)
RECURSIVE WIter(_, _, _, _)
WIter(G, strs, L, n) ==
    LET L2 == WStep(G, strs, L)
    IN  IF L2 = L THEN [finite |-> TRUE, total |-> L]
        ELSE IF n = 0 \/ Exceeds(G.R, L2) THEN [finite |-> FALSE, total |-> L]
        ELSE WIter(G, strs, L2, n - 1)

TotalWeights(G) ==
    LET strs == Strs(G.V, MaxStr)
        syms == Symbols(G)
    IN  WIter(G, strs, [X \in syms |-> [s \in strs |-> Zero(G.R)]],
              Cardinality(syms) * (MaxStr + 1) + 1)

\* grammar(s): the total weight of the derivations of s from the start symbol
WeightOf(G, s) == TotalWeights(G).total[G.S][s]

-----------------------------------------------------------------------------
(* unaryremove on integer weights.                                         *)

\* the unary nonterminal rules form no cycle
UnaryAcyclic(G) ==
    LET E == {<<r.body[1], r.head>> : r \in {r \in RulesOf(G) : IsUnaryNT(G, r)}}
        Reach(x) == ReachAlong(E, {x})
    IN  \A e \in E : e[1] \notin Reach(e[2])

\* scenario 3: 2: S -> A, 3: A -> B, 5: B -> a
Scenario3 ==
    AddAll(CFG("Real", sS, {sa}),
           << Rule(2, sS, <<sA>>), Rule(3, sA, <<sB>>), Rule(5, sB, <<sa>>) >>)

UnaryWeights == {2, 3}

UnaryFamily ==
    {G \in Family("Real", sS, {sa}, UnaryWeights, {sS, sA}, {sS, sA, sa})
              \cup {Scenario3} : UnaryAcyclic(G)}

InitUnary ==
    /\ g \in UnaryFamily
    /\ op = "new"
    /\ out = None
    /\ i = 0
    /\ Idle
    /\ NoExt

NextUnary == UnaryRemove

SpecUnary == InitUnary /\ [][NextUnary]_vars

\* with Tg finite, Tout is finite and gives every string the weight Tg gives
WeightsAgree(Tg, Tout, S) ==
    Tg.finite => (Tout.finite /\ Tout.total[S] = Tg.total[S])

\* C5: unaryremove preserves the weighted language: for a grammar g with
\* non-negative integer weights whose unary nonterminal rules form no cycle,
\* unaryremove(g) has no unary nonterminal rule, and every string of length at
\* most MaxStr has the same total weight under unaryremove(g) as under g
\* (where g gives every string finitely many derivations, so that the total
\* is an integer); for 2: S -> A, 3: A -> B, 5: B -> a the string a weighs 30.
C5_UnaryRemovePreservesWeights ==
    op = "unaryremove" =>
        /\ \A r \in RulesOf(out) : ~IsUnaryNT(out, r)
        /\ WeightsAgree(TotalWeights(g), TotalWeights(out), g.S)
        /\ g = Scenario3 => WeightOf(out, <<sa>>) = 30

C5_Witness ==
    /\ op = "unaryremove"
    /\ g = Scenario3
    /\ WeightOf(g, <<sa>>) = 30
    /\ WeightOf(out, <<sa>>) = 30
    /\ Len(out.rules) = 3

-----------------------------------------------------------------------------
(* _lehmann on the charts over a small node set.                           *)

MaxNodes == 3       \* nodes of a drawn chart
MaxEdgeWeight == 2  \* largest weight of an edge of a drawn integer chart

\* the chart that holds the non-zero entries of f
ChartOf(R, f) == [ik \in {ik \in DOMAIN f : f[ik] # Zero(R)} |-> f[ik]]

Edges(R, chart) == {ik \in DOMAIN chart : chart[ik] # Zero(R)}

\* no node reaches itself along one edge or more
Acyclic(E) == \A e \in E : e[1] \notin ReachAlong(E, {e[2]})

\* every Boolean chart; the integer charts without a cycle, where the star
\* of every pivot exists
Charts(R, nodes) ==
    IF R = "Boolean"
    THEN {ChartOf(R, f) : f \in [nodes \X nodes -> BOOLEAN]}
    ELSE {ChartOf(R, f) : f \in {f \in [nodes \X nodes -> 0..MaxEdgeWeight] :
                                     Acyclic({ik \in nodes \X nodes : f[ik] # 0})}}

InitLehmann ==
    /\ g \in {CFG("Boolean", sS, {sa}), CFG("Real", sS, {sa})}
    /\ N \in SUBSET (1..MaxNodes)
    /\ W \in Charts(g.R, N)
    /\ op = "new"
    /\ out = None
    /\ i = 0
    /\ NoLC
    /\ err = ""
    /\ NoExt

Lehmann ==
    /\ op = "new"
    /\ out' = _lehmann(g.R, N, W)
    /\ op' = "_lehmann"
    /\ UNCHANGED <<g, i, Xs, Ps, d, N, W, md, err>>
    /\ UNCHANGED ext

NextLehmann == Lehmann

SpecLehmann == InitLehmann /\ [][NextLehmann]_vars

\* the sum over j in js of V[i, j] * chart[j, k]
RECURSIVE SumThrough(_, _, _, _, _, _)
SumThrough(R, V, chart, ii, k, js) ==
    IF js = <<>> THEN Zero(R)
    ELSE Plus(R, Times(R, Lookup(R, V, <<ii, Head(js)>>),
                       Lookup(R, chart, <<Head(js), k>>)),
              SumThrough(R, V, chart, ii, k, Tail(js)))

\* C6: the chart V that _lehmann(N, W) returns satisfies
\* V[i,k] = (one if i = k else zero) + sum over j of V[i,j] * W[j,k] for all
\* i, k in N; over the Boolean semiring V[i,k] is true iff k is reachable
\* from i along the edges of W by a path of length >= 0.
C6_LehmannFixpoint ==
    op = "_lehmann" =>
        /\ \A ii \in N : \A k \in N :
              Lookup(g.R, out, <<ii, k>>) =
                  Plus(g.R, IF ii = k THEN One(g.R) ELSE Zero(g.R),
                       SumThrough(g.R, out, W, ii, k, SetToSeq(N)))
        /\ g.R = "Boolean" =>
              \A ii \in N : \A k \in N :
                  Lookup(g.R, out, <<ii, k>>) <=> k \in ReachAlong(Edges(g.R, W), {ii})

\* a Boolean chart on three nodes where a node reaches another along two
\* edges but not along one, and some node does not reach some other
C6_Witness ==
    /\ op = "_lehmann"
    /\ g.R = "Boolean"
    /\ Cardinality(N) = 3
    /\ \E ii \in N : \E k \in N :
          ii # k /\ ~Lookup(g.R, W, <<ii, k>>) /\ Lookup(g.R, out, <<ii, k>>)
    /\ \E ii \in N : \E k \in N : ~Lookup(g.R, out, <<ii, k>>)

-----------------------------------------------------------------------------
(* States where the cases of the properties above happen.                  *)

\* cnf of a grammar that is not in normal form, with a nullary, a unary and
\* a binary rule in the result
C2_Witness ==
    /\ op = "cnf"
    /\ err = ""
    /\ ~in_cnf(g)
    /\ \E r \in RulesOf(g) : Len(r.body) = 3
    /\ \E r \in RulesOf(out) : Len(r.body) = 0
    /\ \E r \in RulesOf(out) : Len(r.body) = 1
    /\ \E r \in RulesOf(out) : Len(r.body) = 2

\* S -> A B, A -> a, A -> (empty), B -> b: the start symbol is not nullable
\* and nullaryremove leaves no nullary rule
C3_Witness ==
    /\ op = "nullaryremove"
    /\ err = ""
    /\ g = Scenario2
    /\ \E r \in RulesOf(g) : r.body = <<>>
    /\ NullaryRules(out) = {}

\* the same grammar: ab and b stay derivable, a stays underivable
C4_Witness ==
    /\ op = "nullaryremove"
    /\ err = ""
    /\ g = Scenario2
    /\ <<sa, sb>> \in Language(out)
    /\ <<sb>> \in Language(out)
    /\ <<sa>> \notin Language(out)
    /\ \A r \in RulesOf(out) : r.body # <<>>

\* a derivation whose root rule is in Ps, mapped to a tree with a slash item
\* that has children of its own
C7_Witness ==
    /\ op = "mapping"
    /\ d.r \in Ps
    /\ \E k \in DOMAIN md.ys :
          /\ IsDerivation(md.ys[k])
          /\ IsSlash(md.ys[k].x)
          /\ Len(md.ys[k].ys) > 0

\* S -> S S, S -> a: aaa stays derivable
C9_Witness ==
    /\ op = "elim_left_recursion"
    /\ g = Scenario4
    /\ out.rules # g.rules
    /\ <<sa, sa, sa>> \in Language(g)
    /\ <<sa, sa, sa>> \in Language(out)

\* S -> S a, S -> b with Xs = {S}: the result is not left-recursive
C10_Witness ==
    /\ op = "lc_generalized"
    /\ g = Scenario5
    /\ Ps = {RuleSa}
    /\ Xs = {sS}
    /\ ~HasLeftCornerCycle(out)
    /\ <<sb, sa>> \in Language(out)

-----------------------------------------------------------------------------
(* __call__ and _parse_chart (lines 195-220): the CKY chart of a grammar   *)
(* in normal form.                                                         *)

MaxInput == 4       \* length of the strings handed to __call__

\* the first component of _cnf(): the sum of the weights of the nullary rules
RECURSIVE CnfNullary(_, _)
CnfNullary(self, n) ==
    IF n > Len(self.rules) THEN Zero(self.R)
    ELSE IF Len(self.rules[n].body) = 0
         THEN Plus(self.R, self.rules[n].w, CnfNullary(self, n + 1))
         ELSE CnfNullary(self, n + 1)

\* "for r in terminal[input[i]]: c[i, r.head, i+1] += r.w", the entry of X
RECURSIVE ParseTerminal(_, _, _, _)
ParseTerminal(self, x, X, n) ==
    IF n > Len(self.rules) THEN Zero(self.R)
    ELSE LET r == self.rules[n]
         IN  IF Len(r.body) = 1 /\ r.body[1] = x /\ r.head = X
             THEN Plus(self.R, r.w, ParseTerminal(self, x, X, n + 1))
             ELSE ParseTerminal(self, x, X, n + 1)

\* c[lo, X, hi] of _parse_chart(input); positions count from 0
RECURSIVE ParseCell(_, _, _, _, _)
RECURSIVE ParseBinary(_, _, _, _, _, _, _)
ParseBinary(self, inp, lo, X, hi, j, n) ==
    IF j >= hi THEN Zero(self.R)
    ELSE IF n > Len(self.rules) THEN ParseBinary(self, inp, lo, X, hi, j + 1, 1)
    ELSE LET r == self.rules[n]
         IN  IF Len(r.body) = 2 /\ r.head = X
             THEN Plus(self.R,
                       Times(self.R,
                             Times(self.R, r.w, ParseCell(self, inp, lo, r.body[1], j)),
                             ParseCell(self, inp, j, r.body[2], hi)),
                       ParseBinary(self, inp, lo, X, hi, j, n + 1))
             ELSE ParseBinary(self, inp, lo, X, hi, j, n + 1)

ParseCell(self, inp, lo, X, hi) ==
    IF hi = lo
    THEN (IF X = self.S THEN CnfNullary(self, 1) ELSE Zero(self.R))
    ELSE IF hi = lo + 1
    THEN ParseTerminal(self, inp[lo + 1], X, 1)
    ELSE ParseBinary(self, inp, lo, X, hi, lo + 1, 1)

\* __call__ without the nullary rule of the start symbol
__call___NoNullary(self, inp, n) ==
    IF Len(inp) = 0 THEN Zero(self.R)
    ELSE ParseCell(self, inp, 0, self.S, Len(inp))

\* __call__: "if not self.in_cnf(): self = self.cnf"; inp is the input
__call__(self, inp, n) ==
    LET c == IF in_cnf(self) THEN self ELSE cnf(self, n).cfg
    IN  ParseCell(c, inp, 0, c.S, Len(inp))

\* L[X]: the strings of length at most n that X yields
LangN(G, n) ==
    LangFrom(G, Strs(G.V, n),
             [X \in Symbols(G) |-> IF X \in G.V THEN {<<X>>} ELSE {}])

\* scenario 1: S -> a S b, S -> (empty)
Scenario1 ==
    AddAll(CFG("Boolean", sS, {sa, sb}),
           << Rule(TRUE, sS, <<sa, sS, sb>>), Rule(TRUE, sS, <<>>) >>)

CkyFamily ==
    Family("Boolean", sS, {sa}, {TRUE}, {sS, sA}, {sS, sA, sa})
        \cup Family("Boolean", sS, {sa, sb}, {TRUE}, {sS}, {sS, sa, sb})
        \cup {Scenario1}

InitCky ==
    /\ g \in CkyFamily
    /\ op = "new"
    /\ out = None
    /\ i = 0
    /\ Idle
    /\ NoExt

\* cnf(g)(s)
Call ==
    /\ op = "cnf"
    /\ err = ""
    /\ \E s \in Strs(g.V, MaxInput) :
          /\ input' = s
          /\ res' = __call__(out, s, i)
    /\ op' = "__call__"
    /\ UNCHANGED <<g, i, out, Xs, Ps, d, N, W, md, err>>
    /\ UNCHANGED <<cache, agenda_old, agenda_change, agenda_iters>>

NextCky == Cnf \/ Call

SpecCky == InitCky /\ [][NextCky]_vars

\* C11: over the Boolean semiring, cnf(g)(s) computed with the CKY chart is
\* true iff g has a derivation from its start symbol with yield s, for every
\* string s of length at most MaxInput (for S -> a S b, S -> (empty): aabb,
\* the empty string and ab are true, aab is false).
C11_CkyAgreesWithDerivations ==
    op = "__call__" =>
        /\ res \in BOOLEAN
        /\ res <=> input \in LangN(g, MaxInput)[g.S]
        /\ (g = Scenario1 /\ input \in {<<sa, sa, sb, sb>>, <<>>, <<sa, sb>>}) => res
        /\ (g = Scenario1 /\ input = <<sa, sa, sb>>) => ~res

C11_Witness ==
    /\ op = "__call__"
    /\ g = Scenario1
    /\ input = <<sa, sa, sb, sb>>
    /\ res = TRUE
    /\ ~in_cnf(g)


-----------------------------------------------------------------------------
(* Specification of separate_start and separate_terminals, over grammars   *)
(* whose symbols may be names that _gen_nt produces and over weighted      *)
(* grammars (lines 16-19, 515-548).                                        *)

\* the name _gen_nt('S') returns when the counter is 0
sS1 == Sym("S@1")

\* S -> S@1 S, S@1 -> a
StartCollision ==
    AddAll(CFG("Boolean", sS, {sa}),
           << Rule(TRUE, sS, <<sS1, sS>>), Rule(TRUE, sS1, <<sa>>) >>)

StartFamily ==
    Family("Boolean", sS, {sa}, {TRUE}, {sS, sS1}, {sS, sS1, sa})
        \cup {StartCollision}

\* weighted grammars over S, a, b whose rules have weight one or three
TerminalFamily ==
    Family("Real", sS, {sa, sb}, {1, 3}, {sS}, {sS, sa, sb})
        \cup Family("Boolean", sS, {sa, sb}, {TRUE}, {sS}, {sS, sa, sb})

InitSeparate ==
    /\ g \in StartFamily \cup TerminalFamily
    /\ i \in 0..MaxGen
    /\ op = "new"
    /\ out = None
    /\ Idle
    /\ NoExt

NextSeparate == SeparateStart \/ SeparateTerminals

SpecSeparate == InitSeparate /\ [][NextSeparate]_vars

\* C12: for every grammar g and every value of the name counter, the start
\* symbol of separate_start(g) is in the body of no rule of
\* separate_start(g), and a start symbol that separate_start invents is not
\* a symbol that g already uses.
C12_StartSeparatedAndFresh ==
    op = "separate_start" =>
        /\ out.S \notin BodySymbols(out)
        /\ (out.S # g.S => out.S \notin Symbols(g))


\* the rules of G whose body contains a terminal
TerminalRules(G) ==
    {k \in DOMAIN G.rules : \E y \in Range(G.rules[k].body) : y \in G.V}

\* the names _gen_nt() has returned when the counter is m
Invented(m) == {gen_nt("", k) : k \in 0..(m - 1)}

\* C13 as stated: in separate_terminals(g) every rule whose body contains a
\* terminal has a body of length exactly 1 and weight equal to the semiring
\* one.
C13_TerminalRulesUnitWeight ==
    op = "separate_terminals" =>
        \A k \in TerminalRules(out) :
            /\ Len(out.rules[k].body) = 1
            /\ out.rules[k].w = One(out.R)

\* C13, amended: in separate_terminals(g) every rule whose body contains a
\* terminal has a body of length exactly 1; it has weight one when its head
\* is a name that _gen_nt returned, and otherwise it is a rule of g
\* with the weight it has in g.
C13_TerminalRulesPreterminal ==
    op = "separate_terminals" =>
        \A k \in TerminalRules(out) :
            LET r == out.rules[k]
            IN  /\ Len(r.body) = 1
                /\ IF r.head \in Invented(i)
                   THEN r.w = One(out.R)
                   ELSE r \in Range(g.rules)

C13_Witness ==
    /\ op = "separate_terminals"
    /\ g.R = "Real"
    /\ \E k \in TerminalRules(out) :
           out.rules[k].w = 3 /\ out.rules[k] \in Range(g.rules)
    /\ \E k \in TerminalRules(out) : out.rules[k].head \in Invented(i)


-----------------------------------------------------------------------------
(* Specification of a grammar under construction: add and the cached       *)
(* index rhs (lines 162-167, 229-234, 258-263).                            *)

MaxAdds == 3        \* rules added to the grammar under construction

\* rhs: the rules grouped by head, in the order of self.rules
rhs(self) ==
    [X \in {r.head : r \in Range(self.rules)} |->
        SelectSeq(self.rules, LAMBDA r : r.head = X)]

\* rhs[X] of a defaultdict(list)
RhsAt(index, X) == IF X \in DOMAIN index THEN index[X] ELSE <<>>

\* functools.cached_property: nothing stored in the instance yet
NotCached == [cached |-> FALSE, value |-> <<>>]

InitBuild ==
    /\ g = CFG("Boolean", sS, {sa})
    /\ i = 0
    /\ op = "new"
    /\ out = None
    /\ Idle
    /\ input = None /\ res = None
    /\ cache = NotCached
    /\ agenda_old = None /\ agenda_change = <<>> /\ agenda_iters = 0

\* g.add(w, head, *body): no exception is raised on any path
Add ==
    /\ Len(g.rules) < MaxAdds
    /\ \E w \in BOOLEAN, head \in {sS, sA, sa}, body \in Bodies({sS, sa}, 1) :
          /\ input' = Rule(w, head, body)
          /\ g' = add(g, w, head, body)
    /\ op' = "add"
    /\ err' = ""
    /\ UNCHANGED <<i, out, Xs, Ps, d, N, W, md>>
    /\ UNCHANGED <<res, cache, agenda_old, agenda_change, agenda_iters>>

\* a read of g.rhs: computed on the first read, then served from the instance
ReadRhs ==
    /\ cache' = IF cache.cached THEN cache
                ELSE [cached |-> TRUE, value |-> rhs(g)]
    /\ res' = cache'.value
    /\ op' = "rhs"
    /\ UNCHANGED <<g, i, out, Xs, Ps, d, N, W, md, err>>
    /\ UNCHANGED <<input, agenda_old, agenda_change, agenda_iters>>

NextBuild == Add \/ ReadRhs

SpecBuild == InitBuild /\ [][NextBuild]_vars

\* C14: an add whose head is a terminal is rejected with InvalidRule and
\* leaves the grammar unchanged, so after any sequence of add operations V
\* and N are disjoint and the head of every stored rule is in N.
C14_TerminalHeadRejected ==
    /\ (op = "add" /\ input.head \in g.V) => err = "InvalidRule"
    /\ g.N \cap g.V = {}
    /\ \A r \in Range(g.rules) : r.head \in g.N /\ r.head \notin g.V

\* C15: after any interleaving of add calls and reads of rhs, the index a
\* read returns gives, for every head X, the list of the rules currently
\* stored with head X.
C15_RhsCurrent ==
    op = "rhs" =>
        \A X \in Symbols(g) \cup DOMAIN res :
            RhsAt(res, X) = SelectSeq(g.rules, LAMBDA r : r.head = X)


-----------------------------------------------------------------------------
(* naive_bottom_up and _bottom_up_step (lines 703-730).                    *)

timeout == 100000

\* update = p.w * prod of V[X] over the nonterminals X of the body
RECURSIVE BottomUpUpdate(_, _, _, _, _)
BottomUpUpdate(self, V, body, k, update) ==
    IF k > Len(body) THEN update
    ELSE IF is_nonterminal(self, body[k])
         THEN BottomUpUpdate(self, V, body, k + 1,
                             Times(self.R, update, Lookup(self.R, V, body[k])))
         ELSE BottomUpUpdate(self, V, body, k + 1, update)

RECURSIVE BottomUpRules(_, _, _, _)
BottomUpRules(self, V, n, U) ==
    IF n > Len(self.rules) THEN U
    ELSE LET p == self.rules[n]
             update == BottomUpUpdate(self, V, p.body, 1, p.w)
         IN  BottomUpRules(self, V, n + 1,
                 [x \in DOMAIN U \cup {p.head} |->
                     IF x = p.head THEN Plus(self.R, Lookup(self.R, U, x), update)
                     ELSE U[x]])

_bottom_up_step(self, V) ==
    BottomUpRules(self, V, 1, [a \in self.V |-> One(self.R)])

_approx_equal(self, U, V) ==
    \A X \in self.N : Metric(self.R, Lookup(self.R, U, X), Lookup(self.R, V, X)) = 0

RECURSIVE NaiveLoop(_, _, _)
NaiveLoop(self, V, counter) ==
    IF counter >= timeout THEN V
    ELSE LET U == _bottom_up_step(self, V)
         IN  IF _approx_equal(self, U, V) THEN V
             ELSE NaiveLoop(self, U, counter + 1)

naive_bottom_up(self) == NaiveLoop(self, <<>>, 0)

-----------------------------------------------------------------------------
(* Specification of the agenda loop, one iteration at a time, the entry    *)
(* popped being any entry of change (lines 660-701).                       *)

AgendaFamily ==
    Family("Boolean", sS, {sa, sb}, {TRUE}, {sS, sA}, {sS, sA, sa})

InitAgenda ==
    /\ g \in AgendaFamily
    /\ i = 0
    /\ op = "new"
    /\ out = None
    /\ Idle
    /\ NoExt

\* lines 662-676: old, routing and the seeded change
AgendaStart ==
    /\ op = "new"
    /\ agenda_old' = <<>>
    /\ agenda_change' = AgendaSeed(g)
    /\ agenda_iters' = 0
    /\ op' = "loop"
    /\ UNCHANGED <<g, i, out, Xs, Ps, d, N, W, md, err>>
    /\ UNCHANGED <<input, res, cache>>

\* lines 678-699: one iteration
AgendaPop ==
    /\ op = "loop"
    /\ agenda_iters < max_iters
    /\ agenda_change # <<>>
    /\ \E n \in DOMAIN agenda_change :
          LET step == AgendaStep(g, agenda_old, agenda_change, n)
          IN  /\ agenda_old' = step.old
              /\ agenda_change' = step.change
    /\ agenda_iters' = agenda_iters + 1
    /\ UNCHANGED <<g, i, op, out, Xs, Ps, d, N, W, md, err>>
    /\ UNCHANGED <<input, res, cache>>

\* lines 678-679, 701: the loop ends and old is returned
AgendaReturn ==
    /\ op = "loop"
    /\ agenda_iters = max_iters \/ agenda_change = <<>>
    /\ out' = agenda_old
    /\ op' = "agenda"
    /\ UNCHANGED <<g, i, Xs, Ps, d, N, W, md, err>>
    /\ UNCHANGED ext

NextAgenda == AgendaStart \/ AgendaPop \/ AgendaReturn

SpecAgenda == InitAgenda /\ [][NextAgenda]_vars

\* the loop is sequential code: an iteration that can run does run
SpecAgendaFair == SpecAgenda /\ WF_vars(NextAgenda)

\* C16: over the Boolean semiring and for every order of the pops, the
\* chart agenda() returns once change is empty gives, for every nonterminal
\* X, true exactly when X roots a finite derivation tree, and that is the
\* value naive_bottom_up gives for X.
C16_AgendaTreeSum ==
    (op = "agenda" /\ agenda_change = <<>>) =>
        \A X \in g.N \ g.V :
            /\ Lookup(g.R, out, X) = (X \in GeneratingIn(g))
            /\ Lookup(g.R, out, X) = Lookup(g.R, naive_bottom_up(g), X)

C16_Witness ==
    /\ op = "agenda" /\ agenda_change = <<>>
    /\ agenda_iters >= 3
    /\ \E X \in g.N : Lookup(g.R, out, X)
    /\ \E X \in g.N : ~Lookup(g.R, out, X)
    /\ \E r \in Range(g.rules) : r.head \in Range(r.body)


\* one step of the loop changes a stored value only from zero, and a step
\* that changes no stored value drops the popped entry and adds nothing
AgendaOnce ==
    /\ \A X \in DOMAIN agenda_old \cup DOMAIN agenda_old' :
          Lookup(g.R, agenda_old, X) # Lookup(g.R, agenda_old', X)
              => Lookup(g.R, agenda_old, X) = Zero(g.R)
    /\ (op = "loop" /\ op' = "loop" /\ agenda_old' = agenda_old)
          => Len(agenda_change') = Len(agenda_change) - 1

-----------------------------------------------------------------------------
(* elim_nullary_slash (lines 1023-1057).                                   *)

\* the charts W (unary slash rules) and v (nullary slash rules)
RECURSIVE SlashCharts(_, _, _, _)
SlashCharts(self, n, Wc, vc) ==
    IF n > Len(self.rules) THEN [W |-> Wc, v |-> vc]
    ELSE LET p == self.rules[n]
             k == <<p.head, IF p.body = <<>> THEN None ELSE p.body[1]>>
             W2 == IF Len(p.body) = 1 /\ IsSlash(p.head)
                   THEN [x \in DOMAIN Wc \cup {k} |->
                           IF x = k THEN Plus(self.R, Lookup(self.R, Wc, k), p.w)
                           ELSE Wc[x]]
                   ELSE Wc
             v2 == IF Len(p.body) = 0 /\ IsSlash(p.head)
                   THEN [x \in DOMAIN vc \cup {p.head} |->
                           IF x = p.head THEN Plus(self.R, Lookup(self.R, vc, x), p.w)
                           ELSE vc[x]]
                   ELSE vc
         IN  SlashCharts(self, n + 1, W2, v2)

\* the assertions of lines 1038 and 1048
SlashAsserts(self) ==
    \A p \in Range(self.rules) :
        /\ (Len(p.body) = 1 /\ IsSlash(p.head)) => IsSlash(p.body[1])
        /\ Len(p.body) = 0 => IsSlash(p.head)

\* sum over Y of K[X, Y] * v[Y]
RECURSIVE SlashNullWeight(_, _, _, _, _)
SlashNullWeight(R, K, vc, X, Ys) ==
    IF Ys = <<>> THEN Zero(R)
    ELSE Plus(R, SlashNullWeight(R, K, vc, X, Tail(Ys)),
              Times(R, Lookup(R, K, <<X, Head(Ys)>>), Lookup(R, vc, Head(Ys))))

elim_nullary_slash(self, n) ==
    LET b == binarize(self, n)
        c == SlashCharts(b.cfg, 1, <<>>, <<>>)
        K == _lehmann(b.cfg.R, b.cfg.N, c.W)
        nw == [X \in b.cfg.N |->
                  SlashNullWeight(b.cfg.R, K, c.v, X, SetToSeq(b.cfg.N))]
    IN  IF SlashAsserts(b.cfg) /\ PushAsserts(b.cfg)
        THEN [cfg |-> _push_null_weights(b.cfg, nw), null_weight |-> nw,
              i |-> b.i, err |-> ""]
        ELSE [cfg |-> None, null_weight |-> None, i |-> b.i, err |-> "AssertionError"]

-----------------------------------------------------------------------------
(* Specification of elim_nullary_slash on the grammars lc_generalized and  *)
(* elim_left_recursion build from a parent without nullary rules.          *)

NullaryFree(G) == \A r \in Range(G.rules) : r.body # <<>>

SlashFamily ==
    {G \in FamilyOf("Boolean", sS, {sa}, {TRUE}, {sS, sA}, {sS, sA, sa},
                     MaxBody, MaxLongRules) : NullaryFree(G)}
        \cup {Scenario4, Scenario5}

InitSlash ==
    /\ g \in SlashFamily
    /\ Xs \in SUBSET (g.N \cup g.V)
    /\ Ps \in SUBSET Range(g.rules)
    /\ op = "new"
    /\ out = None
    /\ i = 0
    /\ d = None
    /\ md = None
    /\ NoChart
    /\ err = ""
    /\ NoExt

\* out.elim_nullary_slash(): res is the grammar returned, W its null_weight
ElimNullarySlash ==
    /\ op \in {"lc_generalized", "elim_left_recursion"}
    /\ LET r == elim_nullary_slash(out, i)
       IN  /\ res' = r.cfg
           /\ W' = r.null_weight
           /\ i' = r.i
           /\ err' = r.err
    /\ op' = "elim_nullary_slash"
    /\ UNCHANGED <<g, out, Xs, Ps, d, N, md>>
    /\ UNCHANGED <<input, cache, agenda_old, agenda_change, agenda_iters>>

NextSlash == LcGeneralized \/ ElimLeftRecursion \/ ElimNullarySlash

SpecSlash == InitSlash /\ [][NextSlash]_vars

\* the grammar nullaryremove hands to _push_null_weights
Separated(self) == separate_start(binarize(self, 0).cfg, binarize(self, 0).i).cfg

\* C18: on every grammar lc_generalized or elim_left_recursion builds from
\* a parent without nullary rules, elim_nullary_slash completes with no
\* assertion failing and matches nullaryremove on the same grammar: the
\* same null weights and the same language.
C18_ElimNullarySlashMatches ==
    op = "elim_nullary_slash" =>
        /\ err = ""
        /\ \A X \in out.N : Lookup(out.R, W, X) = Lookup(out.R, null_weight(Separated(out)), X)
        /\ Language(res) = Language(nullaryremove(out, 0).cfg)

=============================================================================
